---- MODULE Spec2Model ----
(***************************************************************************)
(* Model of pybibtexer's acronym-table reconciliation:                     *)
(*   main/utils.py            CheckAcronymAbbrAndFullDict (the validator)  *)
(*                            process_user_conferences_journals_json       *)
(*   main/basic_input.py      BasicInput (default/user merge)              *)
(*   scripts/run_generate_jsons.py  GenerateDefaultJSONs                   *)
(*                                                                         *)
(* A string is a sequence of one-character strings, so that lower(),       *)
(* replace("(", "") and re.match act on it character by character.         *)
(* A dict is a sequence of entries in insertion order (Python >= 3.7).     *)
(***************************************************************************)
EXTENDS Integers, Sequences, FiniteSets, TLC

VARIABLES
    pc,                 \* position inside CheckAcronymAbbrAndFullDict.run
    dict_in,            \* the argument of run, kept for reference
    dict_data,          \* run's local dict_data
    length_check,       \* run's four check flags
    duplicate_check,
    abbr_match_check,
    full_match_check,
    ret_flag,           \* the boolean run returns
    rpc,                \* position inside GenerateDefaultJSONs.run
    merge_json,         \* run's argument
    disk0,              \* the default table files before run, by namespace ("c", "j")
    disk,               \* the default table files, by namespace
    bib,                \* the entries of the BibLaTeX source file
    user_file,          \* the user JSON files, by namespace
    json_old,           \* run's json_old_c / json_old_j
    json_new,           \* run's json_new_c / json_new_j
    user_json,          \* run's user_c_json / user_j_json
    check_arg,          \* the tables run passes to _check_match
    matched,            \* what _check_match prints: the acronym pairs it matched
    save_log,           \* the calls of save_to_json made by run: <<namespace, data>>
    sl_pc,              \* position in a save_to_json / load_json_file round trip
    sl_file0,           \* the destination file before save_to_json is called
    sl_file,            \* the destination file of the round trip
    sl_data,            \* the table given to save_to_json
    sl_raised,          \* whether save_to_json caught an exception
    sl_loaded,          \* what load_json_file returned
    sod_pc,             \* StrictOrderedDict: "write" after __setitem__, "read" after keys()
    sod_keys,           \* StrictOrderedDict._keys
    sod_data,           \* StrictOrderedDict._data
    sod_calls,          \* the keys given to __setitem__ so far, in call order
    sod_out,            \* what the last call of keys() returned
    p_pc,               \* position inside parse_bibtex_file
    p_type,             \* parse_bibtex_file's entry_type
    p_entries,          \* the entries pattern.findall found in the file
    p_i,                \* the number of entries the loop has processed
    p_result,           \* parse_bibtex_file's result_dict
    c_pc,               \* position inside _compare_and_return
    c_old,              \* _compare_and_return's json_old
    c_new,              \* _compare_and_return's json_new
    c_report,           \* the items _compare_and_return prints as new, by key and flag
    c_ret               \* what _compare_and_return returned

\* the state of a CheckAcronymAbbrAndFullDict.run call
vvars == <<pc, dict_in, dict_data, length_check, duplicate_check,
           abbr_match_check, full_match_check, ret_flag>>

\* the state of a GenerateDefaultJSONs.run call
rvars == <<rpc, merge_json, disk0, disk, bib, user_file, json_old, json_new,
           user_json, check_arg, matched, save_log>>

\* the state of a save/load round trip
svars == <<sl_pc, sl_file0, sl_file, sl_data, sl_raised, sl_loaded>>

\* the state of a StrictOrderedDict
sodvars == <<sod_pc, sod_keys, sod_data, sod_calls, sod_out>>

\* the state of a parse_bibtex_file call
pvars == <<p_pc, p_type, p_entries, p_i, p_result>>

\* the state of a _compare_and_return call
cvars == <<c_pc, c_old, c_new, c_report, c_ret>>

\* the state of the three above
nvars == <<sodvars, pvars, cvars>>

vars == <<vvars, rvars, svars, nvars>>

(***************************************************************************)
(* Bounds                                                                  *)
(***************************************************************************)
\* largest number of records in a validator input table
MaxRecs == 3
\* longest names_full / names_abbr list of a validator input record
MaxNames == 1

(***************************************************************************)
(* Strings                                                                 *)
(***************************************************************************)
\* str.lower() on one character
LowerChar(c) ==
    CASE c = "F" -> "f"
      [] c = "G" -> "g"
      [] c = "A" -> "a"
      [] c = "B" -> "b"
      [] OTHER -> c

\* str.lower()
Lower(s) == [i \in DOMAIN s |-> LowerChar(s[i])]

\* s.replace("(", "").replace(")", "")
StripParens(s) == SelectSeq(s, LAMBDA c : c # "(" /\ c # ")")

\* item.lower().replace("(", "").replace(")", "")
Normalize(s) == StripParens(Lower(s))

\* re.compile(f"^{p}$").match(item): the pattern is the name itself, so "."
\* is the regex wildcard and every other character of the alphabet is a literal
ReMatch(p, item) ==
    /\ Len(p) = Len(item)
    /\ \A i \in DOMAIN p : p[i] = "." \/ p[i] = item[i]

\* any(pattern.match(item) for pattern in patterns)
AnyMatch(patterns, item) == \E i \in DOMAIN patterns : ReMatch(patterns[i], item)

(***************************************************************************)
(* Dicts of records, in insertion order                                    *)
(***************************************************************************)
AllKeys == <<"A", "B", "C", "D", "E">>

\* position of a key in sorted() order
Rank(k) == CHOOSE i \in DOMAIN AllKeys : AllKeys[i] = k

Range(s) == {s[i] : i \in DOMAIN s}

\* dict.keys() as a set and as the insertion-ordered list
KeySet(t) == {t[i].key : i \in DOMAIN t}
KeyList(t) == [i \in DOMAIN t |-> t[i].key]

\* d[k]
Get(t, k) == CHOOSE r \in Range(t) : r.key = k

\* d[k] = v: a new key goes last, an existing key keeps its position
Put(t, r) ==
    IF r.key \in KeySet(t)
    THEN [i \in DOMAIN t |-> IF t[i].key = r.key THEN r ELSE t[i]]
    ELSE Append(t, r)

\* sorted(data.keys())
RECURSIVE SortedKeys(_)
SortedKeys(ks) ==
    IF ks = {} THEN <<>>
    ELSE LET m == CHOOSE k \in ks : \A o \in ks : Rank(k) <= Rank(o)
         IN <<m>> \o SortedKeys(ks \ {m})

\* acronyms_bak[::-1]
Reverse(s) == [i \in DOMAIN s |-> s[Len(s) + 1 - i]]

\* value_dict.get(key_type, [])
Field(r, key_type) == IF key_type = "names_abbr" THEN r.names_abbr ELSE r.names_full

(***************************************************************************)
(* CheckAcronymAbbrAndFullDict                                             *)
(***************************************************************************)
\* _validate_lengths that reports a mismatch and keeps the record
RECURSIVE ValidateLengthsKeep(_, _, _, _)
ValidateLengthsKeep(data, i, valid_data, all_valid) ==
    IF i > Len(data) THEN <<valid_data, all_valid>>
    ELSE ValidateLengthsKeep(data, i + 1, Put(valid_data, data[i]),
                             all_valid /\ Len(data[i].names_abbr) = Len(data[i].names_full))

\* _validate_lengths: <<valid_data, all_valid>>
RECURSIVE ValidateLengthsLoop(_, _, _, _)
ValidateLengthsLoop(data, i, valid_data, all_valid) ==
    IF i > Len(data) THEN <<valid_data, all_valid>>
    ELSE IF Len(data[i].names_abbr) # Len(data[i].names_full)
         THEN ValidateLengthsLoop(data, i + 1, valid_data, FALSE)
         ELSE ValidateLengthsLoop(data, i + 1, Put(valid_data, data[i]), all_valid)

ValidateLengths(data) == ValidateLengthsLoop(data, 1, <<>>, TRUE)

\* the names as written, not lower-cased
RawSet(names) == {names[i] : i \in DOMAIN names}

\* {name.lower() for name in names}
LowerSet(names) == {Lower(names[i]) : i \in DOMAIN names}

\* _check_duplicates that records only the names of the records it keeps
RECURSIVE CheckDuplicatesKeptOnly(_, _, _, _, _, _)
CheckDuplicatesKeptOnly(data, i, valid_data, all_unique, seen_abbrs, seen_fulls) ==
    IF i > Len(data) THEN <<valid_data, all_unique>>
    ELSE LET abbrs_lower == LowerSet(data[i].names_abbr)
             fulls_lower == LowerSet(data[i].names_full)
             has_duplicate == \/ abbrs_lower \cap seen_abbrs # {}
                              \/ fulls_lower \cap seen_fulls # {}
         IN CheckDuplicatesKeptOnly(
                data, i + 1,
                IF has_duplicate THEN valid_data ELSE Put(valid_data, data[i]),
                all_unique /\ ~has_duplicate,
                IF has_duplicate THEN seen_abbrs ELSE seen_abbrs \cup abbrs_lower,
                IF has_duplicate THEN seen_fulls ELSE seen_fulls \cup fulls_lower)

\* _check_duplicates: <<valid_data, all_unique>>
RECURSIVE CheckDuplicatesLoop(_, _, _, _, _, _)
CheckDuplicatesLoop(data, i, valid_data, all_unique, seen_abbrs, seen_fulls) ==
    IF i > Len(data) THEN <<valid_data, all_unique>>
    ELSE LET abbrs_lower == LowerSet(data[i].names_abbr)
             fulls_lower == LowerSet(data[i].names_full)
             has_duplicate == \/ abbrs_lower \cap seen_abbrs # {}
                              \/ fulls_lower \cap seen_fulls # {}
         IN CheckDuplicatesLoop(
                data, i + 1,
                IF has_duplicate THEN valid_data ELSE Put(valid_data, data[i]),
                all_unique /\ ~has_duplicate,
                seen_abbrs \cup abbrs_lower,
                seen_fulls \cup fulls_lower)

CheckDuplicates(data) == CheckDuplicatesLoop(data, 1, <<>>, TRUE, {}, {})

\* the normalized items of one acronym
NormItems(data, acronym, key_type) ==
    LET items == Field(Get(data, acronym), key_type)
    IN [j \in DOMAIN items |-> Normalize(items[j])]

\* matches_found of main_acronym = acronyms[i] against acronyms[i + 1:]
MatchesFound(data, key_type, acronyms, i) ==
    \E o \in (i + 1)..Len(acronyms) :
        LET other_items == NormItems(data, acronyms[o], key_type)
        IN \E j \in DOMAIN other_items :
               AnyMatch(NormItems(data, acronyms[i], key_type), other_items[j])

\* one scan of _check_matches over `acronyms`: <<valid_data, no_matches>>
RECURSIVE CheckMatchesScan(_, _, _, _, _, _)
CheckMatchesScan(data, key_type, acronyms, i, valid_data, no_matches) ==
    IF i > Len(acronyms) THEN <<valid_data, no_matches>>
    ELSE IF MatchesFound(data, key_type, acronyms, i)
         THEN CheckMatchesScan(data, key_type, acronyms, i + 1, valid_data, FALSE)
         ELSE CheckMatchesScan(data, key_type, acronyms, i + 1,
                               Put(valid_data, Get(data, acronyms[i])), no_matches)

\* _check_matches: the ascending scan, then the descending scan, both writing
\* the same valid_data and no_matches
CheckMatches(data, key_type) ==
    LET acronyms_bak == SortedKeys(KeySet(data))
        up == CheckMatchesScan(data, key_type, acronyms_bak, 1, <<>>, TRUE)
    IN CheckMatchesScan(data, key_type, Reverse(acronyms_bak), 1, up[1], up[2])

(***************************************************************************)
(* Inputs of the validator                                                 *)
(***************************************************************************)
FullNames == { <<"f">>, <<"F">>, <<"(", "f", ")">>, <<"f", "(", ")">>, <<"g">>, <<".">> }
AbbrNames == { <<"a">>, <<"A">>, <<"(", "a", ")">>, <<"b">> }

\* the lists of at most n distinct-position names over a pool
SeqsUpTo(S, n) == UNION { [1..m -> S] : m \in 0..n }

\* the values of a validator input table: a names_full and a names_abbr list
Values == [names_full : SeqsUpTo(FullNames, MaxNames),
           names_abbr : SeqsUpTo(AbbrNames, MaxNames)]

UsedKeys == {AllKeys[i] : i \in 1..MaxRecs}

\* the key lists of a dict: no key twice, in any insertion order
KeyLists(keys, n) ==
    { ks \in SeqsUpTo(keys, n) : \A i, j \in DOMAIN ks : ks[i] = ks[j] => i = j }

\* the dict with the key list ks and the values v[1], v[2], ...
MkTable(ks, v) ==
    [i \in DOMAIN ks |-> [key |-> ks[i],
                          names_full |-> v[i].names_full,
                          names_abbr |-> v[i].names_abbr]]

(***************************************************************************)
(* CheckAcronymAbbrAndFullDict.run, statement by statement                 *)
(***************************************************************************)
\* no GenerateDefaultJSONs.run call is in progress
RunIdle ==
    /\ rpc = "idle"
    /\ merge_json = FALSE
    /\ disk0 = <<>>
    /\ disk = <<>>
    /\ bib = <<>>
    /\ user_file = <<>>
    /\ json_old = <<>>
    /\ json_new = <<>>
    /\ user_json = <<>>
    /\ check_arg = <<>>
    /\ matched = <<>>
    /\ save_log = <<>>

\* no StrictOrderedDict has been built
DictIdle ==
    /\ sod_pc = "idle"
    /\ sod_keys = <<>>
    /\ sod_data = <<>>
    /\ sod_calls = <<>>
    /\ sod_out = <<>>

\* no parse_bibtex_file call is in progress
ParseIdle ==
    /\ p_pc = "idle"
    /\ p_type = ""
    /\ p_entries = <<>>
    /\ p_i = 0
    /\ p_result = <<>>

\* no _compare_and_return call is in progress
CompareIdle ==
    /\ c_pc = "idle"
    /\ c_old = <<>>
    /\ c_new = <<>>
    /\ c_report = {}
    /\ c_ret = <<>>

\* no save/load round trip is in progress
SaveLoadIdle ==
    /\ sl_pc = "idle"
    /\ sl_file0 = <<>>
    /\ sl_file = <<>>
    /\ sl_data = <<>>
    /\ sl_raised = FALSE
    /\ sl_loaded = <<>>

\* no CheckAcronymAbbrAndFullDict.run call is in progress
ValidateIdle ==
    /\ pc = "idle"
    /\ dict_in = <<>>
    /\ dict_data = <<>>
    /\ length_check = TRUE
    /\ duplicate_check = TRUE
    /\ abbr_match_check = TRUE
    /\ full_match_check = TRUE
    /\ ret_flag = TRUE

\* any(...) in place of all(...)
AnyCheck(flags) == \E i \in DOMAIN flags : flags[i]

\* all([length_check, duplicate_check, abbr_match_check, full_match_check])
AllChecks(flags) == \A i \in DOMAIN flags : flags[i]

InitValidate ==
    /\ pc = "validate_lengths"
    /\ \E ks \in KeyLists(UsedKeys, MaxRecs) :
           \E v \in [DOMAIN ks -> Values] : dict_in = MkTable(ks, v)
    /\ dict_data = dict_in
    /\ length_check = TRUE
    /\ duplicate_check = TRUE
    /\ abbr_match_check = TRUE
    /\ full_match_check = TRUE
    /\ ret_flag = TRUE
    /\ RunIdle
    /\ SaveLoadIdle
    /\ DictIdle
    /\ ParseIdle
    /\ CompareIdle

RunValidateLengths ==
    /\ pc = "validate_lengths"
    /\ dict_data' = ValidateLengths(dict_data)[1]
    /\ length_check' = ValidateLengths(dict_data)[2]
    /\ pc' = "check_duplicates"
    /\ UNCHANGED <<dict_in, duplicate_check, abbr_match_check, full_match_check, ret_flag, rvars, svars, nvars>>

RunCheckDuplicates ==
    /\ pc = "check_duplicates"
    /\ dict_data' = CheckDuplicates(dict_data)[1]
    /\ duplicate_check' = CheckDuplicates(dict_data)[2]
    /\ pc' = "check_matches_abbr"
    /\ UNCHANGED <<dict_in, length_check, abbr_match_check, full_match_check, ret_flag, rvars, svars, nvars>>

RunCheckMatchesAbbr ==
    /\ pc = "check_matches_abbr"
    /\ dict_data' = CheckMatches(dict_data, "names_abbr")[1]
    /\ abbr_match_check' = CheckMatches(dict_data, "names_abbr")[2]
    /\ pc' = "check_matches_full"
    /\ UNCHANGED <<dict_in, length_check, duplicate_check, full_match_check, ret_flag, rvars, svars, nvars>>

RunCheckMatchesFull ==
    /\ pc = "check_matches_full"
    /\ dict_data' = CheckMatches(dict_data, "names_full")[1]
    /\ full_match_check' = CheckMatches(dict_data, "names_full")[2]
    /\ pc' = "return"
    /\ UNCHANGED <<dict_in, length_check, duplicate_check, abbr_match_check, ret_flag, rvars, svars, nvars>>

RunReturn ==
    /\ pc = "return"
    /\ ret_flag' = AllChecks(<<length_check, duplicate_check, abbr_match_check, full_match_check>>)
    /\ pc' = "returned"
    /\ UNCHANGED <<dict_in, dict_data, length_check, duplicate_check,
                   abbr_match_check, full_match_check, rvars, svars, nvars>>

NextValidate ==
    \/ RunValidateLengths
    \/ RunCheckDuplicates
    \/ RunCheckMatchesAbbr
    \/ RunCheckMatchesFull
    \/ RunReturn

SpecValidate == InitValidate /\ [][NextValidate]_vars

(***************************************************************************)
(* Properties of the validator                                             *)
(***************************************************************************)
Returned == pc = "returned"

\* two name lists share a name, letter case aside
ShareLower(xs, ys) ==
    \E i \in DOMAIN xs : \E j \in DOMAIN ys : Lower(xs[i]) = Lower(ys[j])

\* two records share a full name or an abbreviation, letter case aside
ShareName(r, s) ==
    \/ ShareLower(r.names_full, s.names_full)
    \/ ShareLower(r.names_abbr, s.names_abbr)

\* the input records with paired lists, in input order: what the duplicate check is given
Paired == SelectSeq(dict_in, LAMBDA r : Len(r.names_full) = Len(r.names_abbr))

\* C1: in the cleaned table run returns, any two distinct acronyms have disjoint
\* lower-cased names_full sets and disjoint lower-cased names_abbr sets.
C1_NoDuplicates ==
    Returned =>
        \A i, j \in DOMAIN dict_data :
            i # j => ~ShareName(dict_data[i], dict_data[j])

\* a run whose input had a case-insensitive duplicate and that still returns two records
C1_Witness ==
    /\ Returned
    /\ ~duplicate_check
    /\ Len(dict_data) >= 2

\* C2 (as claimed): when two input records (with paired lists) share a name
\* case-insensitively, both are dropped from the cleaned table.
C2_BothDropped ==
    Returned =>
        \A i, j \in DOMAIN Paired :
            (i # j /\ ShareName(Paired[i], Paired[j])) =>
                /\ Paired[i].key \notin KeySet(dict_data)
                /\ Paired[j].key \notin KeySet(dict_data)

\* C2 (amended): of two paired-list records that share a name case-insensitively
\* the later one is dropped and the flag is false; the duplicate check keeps
\* exactly the records none of whose names occurs in a record before them, so
\* the first record of a clash survives it.
C2_LaterDropped ==
    /\ pc = "check_matches_abbr" =>
          dict_data = SelectSeq(Paired, LAMBDA r :
                          \A i \in DOMAIN Paired :
                              (\E j \in DOMAIN Paired : i < j /\ Paired[j] = r)
                                  => ~ShareName(Paired[i], r))
    /\ Returned =>
          \A i, j \in DOMAIN Paired :
              (i < j /\ ShareName(Paired[i], Paired[j])) =>
                  /\ Paired[j].key \notin KeySet(dict_data)
                  /\ ~ret_flag

\* two records sharing a full name: the first is returned, the second is not
C2_Witness ==
    /\ Returned
    /\ Len(dict_in) = 2
    /\ Paired = dict_in
    /\ ShareLower(dict_in[1].names_full, dict_in[2].names_full)
    /\ KeyList(dict_data) = <<dict_in[1].key>>
    /\ ~ret_flag

\* two name lists hold names equal after lower-casing and stripping parentheses
ShareNormalized(xs, ys) ==
    \E i \in DOMAIN xs : \E j \in DOMAIN ys : Normalize(xs[i]) = Normalize(ys[j])

\* C3 (as claimed): no two distinct acronyms of the cleaned table have a
\* full name, or an abbreviation, equal after lower-casing and stripping parentheses.
C3_NoFuzzyMatchRetained ==
    Returned =>
        \A i, j \in DOMAIN dict_data :
            i # j =>
                /\ ~ShareNormalized(dict_data[i].names_full, dict_data[j].names_full)
                /\ ~ShareNormalized(dict_data[i].names_abbr, dict_data[j].names_abbr)

\* s is t with some entries removed, the others in t's order
RECURSIVE IsSubSeq(_, _)
IsSubSeq(s, t) ==
    IF s = <<>> THEN TRUE
    ELSE IF t = <<>> THEN FALSE
    ELSE IF Head(s) = Head(t) THEN IsSubSeq(Tail(s), Tail(t))
    ELSE IsSubSeq(s, Tail(t))

\* C4 (as claimed): the cleaned table lists the surviving records in the
\* relative order of the input table, whatever the order of the input keys.
\* Stated for the runs in which neither fuzzy check finds a match, so that
\* the order is the only thing in question.
C4_InsertionOrderKept ==
    (Returned /\ abbr_match_check /\ full_match_check) =>
        IsSubSeq(KeyList(dict_data), KeyList(dict_in))

\* C5: every record of the cleaned table has as many full names as
\* abbreviations; a record whose lists differ in length is dropped and the flag is false.
C5_PairedLengths ==
    Returned =>
        /\ \A i \in DOMAIN dict_data :
               Len(dict_data[i].names_full) = Len(dict_data[i].names_abbr)
        /\ \A i \in DOMAIN dict_in :
               Len(dict_in[i].names_full) # Len(dict_in[i].names_abbr) =>
                   /\ dict_in[i].key \notin KeySet(dict_data)
                   /\ ~ret_flag

\* an input with a mismatched record and a paired one, which is returned
C5_Witness ==
    /\ Returned
    /\ \E i \in DOMAIN dict_in : Len(dict_in[i].names_full) # Len(dict_in[i].names_abbr)
    /\ Len(dict_data) >= 1
    /\ ~ret_flag

\* some name of xs, as an anchored pattern, matches some name of ys (both normalized)
FuzzyHit(xs, ys) ==
    \E i \in DOMAIN xs : \E j \in DOMAIN ys : ReMatch(Normalize(xs[i]), Normalize(ys[j]))

\* the input table shows none of the four kinds of violation
InputClean ==
    /\ Paired = dict_in
    /\ \A i, j \in DOMAIN dict_in : i # j => ~ShareName(dict_in[i], dict_in[j])
    /\ \A i, j \in DOMAIN dict_in :
           i # j => /\ ~FuzzyHit(dict_in[i].names_abbr, dict_in[j].names_abbr)
                    /\ ~FuzzyHit(dict_in[i].names_full, dict_in[j].names_full)

\* C6: the flag run returns is true iff none of the four checks found a
\* violation, which is the case iff the input shows none; whenever an input
\* record is missing from the cleaned table the flag is false.
C6_FlagIffNoViolation ==
    Returned =>
        /\ ret_flag = (length_check /\ duplicate_check /\ abbr_match_check /\ full_match_check)
        /\ ret_flag = InputClean
        /\ KeySet(dict_data) # KeySet(dict_in) => ~ret_flag

\* a record passed the length and duplicate checks and was removed by a fuzzy check
C6_Witness ==
    /\ Returned
    /\ length_check
    /\ duplicate_check
    /\ Len(dict_data) < Len(dict_in)
    /\ ~ret_flag

(***************************************************************************)
(* Files: load_json_file and save_to_json                                  *)
(***************************************************************************)
\* a path that is no file
Absent == [kind |-> "absent", data |-> <<>>]

\* a file that does not parse as JSON, such as one cut short while written
Invalid == [kind |-> "invalid", data |-> <<>>]

\* a file holding one JSON object, its members in the order of the text
JsonFile(t) == [kind |-> "json", data |-> t]

\* json.dump(data, f, indent=4, sort_keys=True, ensure_ascii=True): the
\* members are written in sorted key order
DumpJson(t) ==
    LET ks == SortedKeys(KeySet(t))
    IN [i \in DOMAIN ks |-> Get(t, ks[i])]

\* load_json_file: {} for a missing file and for one json.load rejects
LoadJsonFile(file) == IF file.kind = "json" THEN file.data ELSE <<>>

\* what save_to_json meets: no error, open() raising, or json.dump raising
\* after open() has truncated the file
SaveOutcomes == {"ok", "open_error", "write_error"}

\* save_to_json that opens the file with mode "a": the text is added after
\* what the file held, and the two together are no JSON document
SaveAppend(data, file, outcome) ==
    IF data = <<>> THEN file
    ELSE CASE outcome = "ok" -> IF file.kind = "absent" THEN JsonFile(DumpJson(data))
                                ELSE Invalid
           [] outcome = "open_error" -> file
           [] OTHER -> Invalid

\* save_to_json: the file after the call
SaveToJson(data, file, outcome) ==
    IF data = <<>> THEN file
    ELSE CASE outcome = "ok" -> JsonFile(DumpJson(data))
           [] outcome = "open_error" -> file
           [] OTHER -> Invalid

\* whether save_to_json reaches its except branch
SaveRaises(data, outcome) == data # <<>> /\ outcome # "ok"

(***************************************************************************)
(* parse_bibtex_file                                                       *)
(***************************************************************************)
\* config[entry_type]["prefix"] without its underscore
Prefix(entry_type) == IF entry_type = "article" THEN "J" ELSE "C"

\* str.strip() on the captured field: blanks at both ends removed
RECURSIVE LStrip(_)
LStrip(s) == IF s # <<>> /\ Head(s) = " " THEN LStrip(Tail(s)) ELSE s

Strip(s) == Reverse(LStrip(Reverse(LStrip(s))))

\* a loop body that never finds the full name in the record
FullNeverPresent(full, existing_entry) == FALSE

\* line 178, negated: full in existing_entry["names_full"]
FullPresent(full, existing_entry) == full \in Range(existing_entry.names_full)

\* an extractor that takes an entry whatever its cite key starts with
StartsWithAnything(parts, entry_type) == TRUE

\* cite_key.startswith(cfg["prefix"]), on the cite key split at "_"
StartsWithPrefix(parts, entry_type) ==
    Len(parts) >= 2 /\ parts[1] = Prefix(entry_type)

\* the loop body of parse_bibtex_file for one entry
ParseEntry(result_dict, e, entry_type) ==
    IF ~StartsWithPrefix(e.parts, entry_type) THEN result_dict
    ELSE IF ~e.full.has THEN result_dict
    ELSE LET full == Strip(e.full.v)
             abbr == IF e.abbr.has THEN Strip(e.abbr.v) ELSE full
         IN IF Len(e.parts) >= 3
            THEN LET key == e.parts[2]
                 IN IF key \in KeySet(result_dict)
                    THEN LET existing_entry == Get(result_dict, key)
                         IN IF ~FullPresent(full, existing_entry)
                            THEN Put(result_dict,
                                     [key |-> key,
                                      names_full |-> Append(existing_entry.names_full, full),
                                      names_abbr |-> Append(existing_entry.names_abbr, abbr)])
                            ELSE result_dict
                    ELSE Put(result_dict,
                             [key |-> key, names_full |-> <<full>>, names_abbr |-> <<abbr>>])
            ELSE result_dict

\* parse_bibtex_file: the entries of the requested type, in file order
RECURSIVE ParseLoop(_, _, _, _)
ParseLoop(entries, i, entry_type, result_dict) ==
    IF i > Len(entries) THEN result_dict
    ELSE ParseLoop(entries, i + 1, entry_type,
                   IF entries[i].type = entry_type
                   THEN ParseEntry(result_dict, entries[i], entry_type)
                   ELSE result_dict)

ParseBibtexFile(entries, entry_type) == ParseLoop(entries, 1, entry_type, <<>>)

(***************************************************************************)
(* _compare_and_return                                                     *)
(***************************************************************************)
\* the orders in which a set of keys can be iterated
KeyOrders(ks) == { o \in [1..Cardinality(ks) -> ks] : \A i, j \in DOMAIN o : o[i] = o[j] => i = j }

\* a differ that returns every key of the new table
EveryKeyOfNew(old, new) == KeySet(new)

\* keys_only_in_new = set(json_new.keys()) - set(json_old.keys())
KeysOnlyInNew(old, new) == KeySet(new) \ KeySet(old)

\* common_keys = set(json_old.keys()) & set(json_new.keys())
CommonKeys(old, new) == KeySet(old) \cap KeySet(new)

\* lines 242-246: old_items and new_items are first bound to the lower-cased
\* names and then bound again to the names of the table with the parentheses
\* removed; the second list is the one the rest of the loop reads
ItemsOf(names) == [i \in DOMAIN names |-> StripParens(names[i])]

\* lines 249-254: the new items that equal no old item and match no pattern
Unmatched(old_items, new_items) ==
    SelectSeq(new_items, LAMBDA new_item :
                 new_item \notin Range(old_items) /\ ~AnyMatch(old_items, new_item))

\* unmatched, for one common key
UnmatchedOf(old, new, key) ==
    Unmatched(ItemsOf(Get(old, key).names_full), ItemsOf(Get(new, key).names_full))

\* lines 257-261: what is printed, a key and its unmatched items, for every
\* common key that has some
CompareReport(old, new) ==
    { [key |-> k, new_data |-> UnmatchedOf(old, new, k)] :
        k \in { c \in CommonKeys(old, new) : UnmatchedOf(old, new, c) # <<>> } }

\* new_only_data = {key: json_new[key] for key in keys_only_in_new}: built by
\* iterating a set of strings, in an order `order` the code does not determine
CompareAndReturn(old, new, order) ==
    [i \in DOMAIN order |-> Get(new, order[i])]

(***************************************************************************)
(* process_user_conferences_journals_json                                  *)
(***************************************************************************)
ConferenceFlags == <<"conferences", "Conferences", "CONFERENCES",
                     "conference", "Conference", "CONFERENCE">>
JournalFlags == <<"journals", "Journals", "JOURNALS", "journal", "Journal", "JOURNAL">>

Flags(ns) == IF ns = "c" THEN ConferenceFlags ELSE JournalFlags

\* json_dict[p].get(flag, {})
SectionOf(publisher, flag) ==
    IF \E i \in DOMAIN publisher.sections : publisher.sections[i].name = flag
    THEN (CHOOSE x \in Range(publisher.sections) : x.name = flag).table
    ELSE <<>>

\* {p: json_dict[p].get(flag, {}) for p in json_dict}
BySection(json_dict, flag) ==
    [i \in DOMAIN json_dict |-> SectionOf(json_dict[i], flag)]

\* the flag loop: stop at the first flag whose dict of publishers is not empty
RECURSIVE FlagLoop(_, _, _)
FlagLoop(json_dict, flags, i) ==
    LET d == BySection(json_dict, flags[i])
    IN IF d # <<>> \/ i = Len(flags) THEN d ELSE FlagLoop(json_dict, flags, i + 1)

\* a flag loop that stops at the first flag under which some publisher has a section
RECURSIVE FlagLoopFound(_, _, _)
FlagLoopFound(json_dict, flags, i) ==
    LET d == BySection(json_dict, flags[i])
    IN IF (\E j \in DOMAIN d : d[j] # <<>>) \/ i = Len(flags)
       THEN d ELSE FlagLoopFound(json_dict, flags, i + 1)

\* d.update(u): {**d, **u}
RECURSIVE Update(_, _)
Update(d, u) == IF u = <<>> THEN d ELSE Update(Put(d, Head(u)), Tail(u))

\* {abbr: v[abbr] for v in d.values() for abbr in v}, built left to right
RECURSIVE FlattenLoop(_, _, _)
FlattenLoop(d, i, acc) ==
    IF i > Len(d) THEN acc ELSE FlattenLoop(d, i + 1, Update(acc, d[i]))

\* one half of process_user_conferences_journals_json; its last statement
\* rebuilds each record from its names_full and names_abbr members, which
\* are all a record of this model has
FlattenUser(json_dict, flags) == FlattenLoop(FlagLoop(json_dict, flags, 1), 1, <<>>)

\* load_json_file of utils.utils, as the interface of the design describes it:
\* the parsed object, or {} for a missing or malformed file
LoadUserJson(file) == IF file.kind = "json" THEN file.data ELSE <<>>

(***************************************************************************)
(* The merge and _check_match                                              *)
(***************************************************************************)
\* {**new, **user, **old}
MergeOldOverUser(new, old, user) == Update(Update(Update(<<>>, new), user), old)

\* {**json_new, **json_old, **user_json}
MergeTables(new, old, user) == Update(Update(Update(<<>>, new), old), user)

\* _check_match: the pairs <<keys[i], key>> of the matches it prints
CheckMatch(data_json) ==
    { pr \in KeySet(data_json) \X KeySet(data_json) :
        \E i, j \in DOMAIN data_json :
            /\ i < j
            /\ pr = <<data_json[i].key, data_json[j].key>>
            /\ \E n \in DOMAIN data_json[j].names_full :
                   AnyMatch(NormItems(data_json, data_json[i].key, "names_full"),
                            Normalize(data_json[j].names_full[n])) }

(***************************************************************************)
(* Inputs of GenerateDefaultJSONs.run                                      *)
(***************************************************************************)
\* largest number of records in a default table file
MaxDefault == 2
\* largest number of publishers in a user JSON file
MaxPubs == 2
\* largest number of entries in the BibLaTeX file
MaxEntries == 2

NS == {"c", "j"}

Rec(k, full, abbr) == [key |-> k, names_full |-> <<full>>, names_abbr |-> <<abbr>>]

DefaultKeys == {"A", "B"}
DefaultValues == { [names_full |-> << <<"f">> >>, names_abbr |-> << <<"a">> >>],
                   [names_full |-> << <<"g">> >>, names_abbr |-> << <<"b">> >>] }

\* the default journals file is absent or holds one record
JournalDefaults == { Absent, JsonFile(<<Rec("A", <<"f">>, <<"a">>)>>) }

\* the acronyms publisher i lists: A, which the default tables may hold too,
\* and one of its own
UserTable(i) ==
    << Rec("A", IF i = 1 THEN <<"F">> ELSE <<"g">>, <<"a">>),
       Rec(AllKeys[i + 1], <<"(", "f", ")">>, <<"b">>) >>

\* the section keys the user files of a namespace use
UserSections(ns) == IF ns = "c" THEN {"conferences", "Conference"}
                    ELSE {"journals", "Journal"}

\* a user JSON object of n publishers, publisher i under the section key names[i]
UserJson(names) ==
    [i \in DOMAIN names |->
        [pub |-> i, sections |-> <<[name |-> names[i], table |-> UserTable(i)]>>]]

\* a BibLaTeX field: absent, or present with a value
NoField == [has |-> FALSE, v |-> <<>>]
FieldOf(x) == [has |-> TRUE, v |-> x]

Entry(type, parts, full, abbr) == [type |-> type, parts |-> parts, full |-> full, abbr |-> abbr]

\* the entries a BibLaTeX file of a run is made of
RunEntries ==
    { Entry("inproceedings", <<"C", "B", "2020">>, FieldOf(<<"(", "f", ")">>), FieldOf(<<"b">>)),
      Entry("inproceedings", <<"C", "B", "2021">>, FieldOf(<<"(", "f", ")">>), NoField),
      Entry("inproceedings", <<"C", "C", "2020">>, FieldOf(<<"g">>), NoField),
      Entry("inproceedings", <<"C", "A", "2020">>, FieldOf(<<"g">>), FieldOf(<<"a">>)),
      Entry("inproceedings", <<"C", "B">>, NoField, FieldOf(<<"b">>)),
      Entry("article", <<"J", "B", "2020">>, FieldOf(<<"f">>), FieldOf(<<"a">>)) }

(***************************************************************************)
(* GenerateDefaultJSONs.run                                                *)
(***************************************************************************)
InitRun ==
    /\ rpc = "conference"
    /\ merge_json \in BOOLEAN
    /\ \E ks \in KeyLists(DefaultKeys, MaxDefault) :
         \E v \in [DOMAIN ks -> DefaultValues] :
           \E dc \in {Absent, Invalid, JsonFile(MkTable(ks, v))} :
             \E dj \in JournalDefaults :
               disk0 = [c |-> dc, j |-> dj]
    /\ disk = disk0
    /\ bib \in SeqsUpTo(RunEntries, MaxEntries)
    /\ \E names \in SeqsUpTo(UserSections("c"), MaxPubs) :
         \E uc \in {Absent, JsonFile(UserJson(names))} :
           \E uj \in {Absent, JsonFile(UserJson(<<"Journal">>))} :
             user_file = [c |-> uc, j |-> uj]
    /\ json_old = [c |-> <<>>, j |-> <<>>]
    /\ json_new = [c |-> <<>>, j |-> <<>>]
    /\ user_json = [c |-> <<>>, j |-> <<>>]
    /\ check_arg = [c |-> <<>>, j |-> <<>>]
    /\ matched = [c |-> {}, j |-> {}]
    /\ save_log = <<>>
    /\ ValidateIdle
    /\ SaveLoadIdle
    /\ DictIdle
    /\ ParseIdle
    /\ CompareIdle

\* lines 272-287: load the default conferences, parse the file, keep the new-only records
RunConference ==
    /\ rpc = "conference"
    /\ LET old == LoadJsonFile(disk.c)
           new == ParseBibtexFile(bib, "inproceedings")
       IN /\ json_old' = [json_old EXCEPT !.c = old]
          /\ \E order \in KeyOrders(KeysOnlyInNew(old, new)) :
                json_new' = [json_new EXCEPT !.c = CompareAndReturn(old, new, order)]
    /\ rpc' = "journal"
    /\ UNCHANGED <<merge_json, disk0, disk, bib, user_file, user_json, check_arg,
                   matched, save_log, vvars, svars, nvars>>

\* lines 289-303: the same for the journals
RunJournal ==
    /\ rpc = "journal"
    /\ LET old == LoadJsonFile(disk.j)
           new == ParseBibtexFile(bib, "article")
       IN /\ json_old' = [json_old EXCEPT !.j = old]
          /\ \E order \in KeyOrders(KeysOnlyInNew(old, new)) :
                json_new' = [json_new EXCEPT !.j = CompareAndReturn(old, new, order)]
    /\ rpc' = "user"
    /\ UNCHANGED <<merge_json, disk0, disk, bib, user_file, user_json, check_arg,
                   matched, save_log, vvars, svars, nvars>>

\* lines 305-309: process_user_conferences_journals_json
RunUser ==
    /\ rpc = "user"
    /\ user_json' = [ns \in NS |-> FlattenUser(LoadUserJson(user_file[ns]), Flags(ns))]
    /\ rpc' = "check"
    /\ UNCHANGED <<merge_json, disk0, disk, bib, user_file, json_old, json_new,
                   check_arg, matched, save_log, vvars, svars, nvars>>

\* run that saves whatever merge_json says
SaveAlways(merge) == "save_c"

\* line 315: `if merge_json:` guards both save_to_json calls; otherwise run returns
AfterCheck(merge) == IF merge THEN "save_c" ELSE "done"

\* lines 311-315: _check_match on both merged tables, then the test of merge_json
RunCheckMatch ==
    /\ rpc = "check"
    /\ check_arg' = [ns \in NS |-> MergeTables(json_new[ns], json_old[ns], user_json[ns])]
    /\ matched' = [ns \in NS |-> CheckMatch(check_arg'[ns])]
    /\ rpc' = AfterCheck(merge_json)
    /\ UNCHANGED <<merge_json, disk0, disk, bib, user_file, json_old, json_new,
                   user_json, save_log, vvars, svars, nvars>>

\* lines 316-319: save_to_json of the merged conferences
RunSaveConferences ==
    /\ rpc = "save_c"
    /\ LET data == MergeTables(json_new.c, json_old.c, user_json.c)
       IN /\ \E outcome \in SaveOutcomes :
                disk' = [disk EXCEPT !.c = SaveToJson(data, disk.c, outcome)]
          /\ save_log' = Append(save_log, <<"c", data>>)
    /\ rpc' = "save_j"
    /\ UNCHANGED <<merge_json, disk0, bib, user_file, json_old, json_new,
                   user_json, check_arg, matched, vvars, svars, nvars>>

\* lines 321-327: save_to_json of the merged journals, and return
RunSaveJournals ==
    /\ rpc = "save_j"
    /\ LET data == MergeTables(json_new.j, json_old.j, user_json.j)
       IN /\ \E outcome \in SaveOutcomes :
                disk' = [disk EXCEPT !.j = SaveToJson(data, disk.j, outcome)]
          /\ save_log' = Append(save_log, <<"j", data>>)
    /\ rpc' = "done"
    /\ UNCHANGED <<merge_json, disk0, bib, user_file, json_old, json_new,
                   user_json, check_arg, matched, vvars, svars, nvars>>

NextRun ==
    \/ RunConference
    \/ RunJournal
    \/ RunUser
    \/ RunCheckMatch
    \/ RunSaveConferences
    \/ RunSaveJournals

SpecRun == InitRun /\ [][NextRun]_vars

(***************************************************************************)
(* Properties of GenerateDefaultJSONs.run                                  *)
(***************************************************************************)
\* no two distinct acronyms of a table have full names equal after normalization
FullNamesApart(t) ==
    \A i, j \in DOMAIN t : i # j => ~ShareNormalized(t[i].names_full, t[j].names_full)

\* C7 (as claimed): every table run hands to save_to_json is clean: it never holds
\* two distinct acronyms whose normalized full names match.
C7_PersistedClean ==
    \A i \in DOMAIN save_log : FullNamesApart(save_log[i][2])

\* the record a key has under the priority user > default (old) > new
ByPriority(new, old, user, k) ==
    IF k \in KeySet(user) THEN Get(user, k)
    ELSE IF k \in KeySet(old) THEN Get(old, k)
    ELSE Get(new, k)

\* m is the key union of the three tables, each key with the whole record of
\* its highest-priority source
IsPriorityMerge(m, new, old, user) ==
    /\ \A i, j \in DOMAIN m : m[i].key = m[j].key => i = j
    /\ KeySet(m) = KeySet(new) \cup KeySet(old) \cup KeySet(user)
    /\ \A i \in DOMAIN m : m[i] = ByPriority(new, old, user, m[i].key)

\* C8: the merged table, as given to _check_match and to save_to_json, is the
\* key union of the new-only, default and user tables, each key with the whole
\* record of the highest-priority source holding it (user > default > new).
C8_MergePriority ==
    /\ rpc \in {"save_c", "save_j", "done"} =>
          \A ns \in NS :
              IsPriorityMerge(check_arg[ns], json_new[ns], json_old[ns], user_json[ns])
    /\ \A i \in DOMAIN save_log :
          LET ns == save_log[i][1]
          IN IsPriorityMerge(save_log[i][2], json_new[ns], json_old[ns], user_json[ns])

\* a merge-and-save run in which the user table and the default table hold
\* different records for one key, and a new-only record is merged too
C8_Witness ==
    /\ rpc = "done"
    /\ Len(save_log) = 2
    /\ json_new.c # <<>>
    /\ \E k \in KeySet(json_old.c) \cap KeySet(user_json.c) :
          /\ Get(json_old.c, k) # Get(user_json.c, k)
          /\ Get(save_log[1][2], k) = Get(user_json.c, k)

\* C9 (as claimed): the flattened user table holds every acronym of every
\* section whose key is one of the spellings of the namespace's vocabulary.
C9_SectionFound ==
    rpc \in {"check", "save_c", "save_j", "done"} =>
        \A ns \in NS :
            LET json_dict == LoadUserJson(user_file[ns])
            IN \A p \in DOMAIN json_dict :
                   \A x \in DOMAIN json_dict[p].sections :
                       json_dict[p].sections[x].name \in Range(Flags(ns)) =>
                           KeySet(json_dict[p].sections[x].table) \subseteq KeySet(user_json[ns])

(***************************************************************************)
(* A round trip: save_to_json, then load_json_file of the same path        *)
(***************************************************************************)
InitSaveLoad ==
    /\ sl_pc = "save"
    /\ \E ks \in KeyLists(DefaultKeys, MaxDefault) :
         \E v \in [DOMAIN ks -> DefaultValues] :
            sl_file0 \in {Absent, Invalid, JsonFile(MkTable(ks, v))}
    /\ sl_file = sl_file0
    /\ \E ks \in KeyLists(DefaultKeys, MaxDefault) :
         \E v \in [DOMAIN ks -> DefaultValues] :
            sl_data = MkTable(ks, v)
    /\ sl_raised = FALSE
    /\ sl_loaded = <<>>
    /\ ValidateIdle
    /\ RunIdle
    /\ DictIdle
    /\ ParseIdle
    /\ CompareIdle

\* save_to_json(sl_data, path)
SaveCall ==
    /\ sl_pc = "save"
    /\ \E outcome \in SaveOutcomes :
          /\ sl_file' = SaveToJson(sl_data, sl_file, outcome)
          /\ sl_raised' = SaveRaises(sl_data, outcome)
    /\ sl_pc' = "load"
    /\ UNCHANGED <<sl_file0, sl_data, sl_loaded, vvars, rvars, nvars>>

\* load_json_file(path)
LoadCall ==
    /\ sl_pc = "load"
    /\ sl_loaded' = LoadJsonFile(sl_file)
    /\ sl_pc' = "done"
    /\ UNCHANGED <<sl_file0, sl_file, sl_data, sl_raised, vvars, rvars, nvars>>

NextSaveLoad ==
    \/ SaveCall
    \/ LoadCall

SpecSaveLoad == InitSaveLoad /\ [][NextSaveLoad]_vars

\* two dicts hold the same keys with the same records, key order aside
SameContent(t, u) ==
    /\ KeySet(t) = KeySet(u)
    /\ \A k \in KeySet(t) : Get(t, k) = Get(u, k)
    /\ Len(t) = Len(u)

\* C10 (as claimed): for every table, the empty one included, and every prior
\* content of the file, load_json_file after a save_to_json that met no
\* error returns the table saved.
C10_RoundTrip ==
    (sl_pc = "done" /\ ~sl_raised) => SameContent(sl_loaded, sl_data)

\* C10 (amended): the same for every table that is not empty.
C10_RoundTripNonEmpty ==
    (sl_pc = "done" /\ ~sl_raised /\ sl_data # <<>>) => SameContent(sl_loaded, sl_data)

\* a table of two records, inserted in descending key order, is saved and
\* comes back with the same content in another key order
C10_Witness ==
    /\ sl_pc = "done"
    /\ ~sl_raised
    /\ Len(sl_data) = 2
    /\ KeyList(sl_loaded) # KeyList(sl_data)
    /\ SameContent(sl_loaded, sl_data)

\* C11 (as claimed): when save_to_json catches an exception, raised by open()
\* or while json.dump writes, the destination file holds what it held before
\* the call; the call returns and the caller goes on (here, to load_json_file).
C11_FailedSaveKeepsFile ==
    (sl_pc \in {"load", "done"} /\ sl_raised) => sl_file = sl_file0

\* C16: in a run with merge_json false save_to_json is never called and both
\* default files hold, at every step, what they held when the run started;
\* a call of save_to_json happens only in a run with merge_json true.
C16_DryRunTouchesNothing ==
    /\ ~merge_json => (save_log = <<>> /\ disk = disk0)
    /\ save_log # <<>> => merge_json

\* a finished dry run whose input file produced new records that a merging run
\* would have written
C16_Witness ==
    /\ rpc = "done"
    /\ ~merge_json
    /\ json_new.c # <<>>
    /\ save_log = <<>>
    /\ disk = disk0

(***************************************************************************)
(* StrictOrderedDict                                                       *)
(***************************************************************************)
MaxCalls == 4

SodKeys == {"A", "B", "C"}

SodValues == {"v", "w"}

\* a __setitem__ that moves an updated key to the end of the order
SetItemKeysMove(keys, data, key) ==
    Append(SelectSeq(keys, LAMBDA k : k # key), key)

\* __setitem__, lines 48-49: a key not yet in _data is appended to _keys
SetItemKeys(keys, data, key) ==
    IF key \notin DOMAIN data THEN Append(keys, key) ELSE keys

\* __setitem__, line 51: self._data[key] = value
SetItemData(data, key, value) ==
    [k \in DOMAIN data \cup {key} |-> IF k = key THEN value ELSE data[k]]

\* keys(), line 73: a copy of _keys
Keys(keys) == keys

\* __init__, lines 30-31, called without data
InitDict ==
    /\ sod_pc = "write"
    /\ sod_keys = <<>>
    /\ sod_data = <<>>
    /\ sod_calls = <<>>
    /\ sod_out = <<>>
    /\ ValidateIdle
    /\ RunIdle
    /\ SaveLoadIdle
    /\ ParseIdle
    /\ CompareIdle

\* sod[key] = value
SetItem ==
    /\ Len(sod_calls) < MaxCalls
    /\ \E key \in SodKeys, value \in SodValues :
         /\ sod_keys' = SetItemKeys(sod_keys, sod_data, key)
         /\ sod_data' = SetItemData(sod_data, key, value)
         /\ sod_calls' = Append(sod_calls, key)
    /\ sod_pc' = "write"
    /\ UNCHANGED <<sod_out, vvars, rvars, svars, pvars, cvars>>

\* sod.keys()
KeysCall ==
    /\ sod_pc \in {"write", "read"}
    /\ sod_out' = Keys(sod_keys)
    /\ sod_pc' = "read"
    /\ UNCHANGED <<sod_keys, sod_data, sod_calls, vvars, rvars, svars, pvars, cvars>>

NextDict ==
    \/ SetItem
    \/ KeysCall

SpecDict == InitDict /\ [][NextDict]_vars

RECURSIVE FirstSeenFrom(_, _)
FirstSeenFrom(calls, seen) ==
    IF calls = <<>> THEN <<>>
    ELSE IF Head(calls) \in seen THEN FirstSeenFrom(Tail(calls), seen)
    ELSE <<Head(calls)>> \o FirstSeenFrom(Tail(calls), seen \cup {Head(calls)})

\* the keys of a sequence of __setitem__ calls, each at its first call
FirstSeen(calls) == FirstSeenFrom(calls, {})

\* C17: after any sequence of __setitem__ calls the key list holds each key
\* once, in the order of the first __setitem__ of each key, it holds exactly
\* the keys that are stored, and keys() returns that list.
C17_KeysInFirstInsertionOrder ==
    /\ sod_keys = FirstSeen(sod_calls)
    /\ Cardinality(Range(sod_keys)) = Len(sod_keys)
    /\ Range(sod_keys) = DOMAIN sod_data
    /\ sod_pc = "read" => sod_out = FirstSeen(sod_calls)

\* A, B, C inserted, then B updated: keys() returns [A, B, C]
C17_Witness ==
    /\ sod_pc = "read"
    /\ sod_calls = <<"A", "B", "C", "B">>
    /\ sod_out = <<"A", "B", "C">>

(***************************************************************************)
(* parse_bibtex_file, entry by entry                                       *)
(***************************************************************************)
MaxParse == 3

EntryTypes == {"article", "inproceedings"}

\* the entries a BibLaTeX file given to parse_bibtex_file is made of
ParseEntries ==
    { Entry("inproceedings", <<"C", "A", "2020">>, FieldOf(<<"f">>), FieldOf(<<"a">>)),
      Entry("inproceedings", <<"C", "A", "2021">>, FieldOf(<<"f">>), FieldOf(<<"b">>)),
      Entry("inproceedings", <<"C", "A", "2022">>, FieldOf(<<"g">>), NoField),
      Entry("inproceedings", <<"C", "B", "2020">>, FieldOf(<<"f", " ">>), FieldOf(<<"a">>)),
      Entry("inproceedings", <<"C", "A">>, FieldOf(<<"g">>), NoField),
      Entry("inproceedings", <<"X", "A", "2020">>, FieldOf(<<"g">>), FieldOf(<<"b">>)),
      Entry("inproceedings", <<"J", "C", "2020">>, FieldOf(<<"g">>), NoField),
      Entry("inproceedings", <<"C", "C", "2020">>, NoField, FieldOf(<<"a">>)),
      Entry("article", <<"J", "A", "2020">>, FieldOf(<<"f">>), FieldOf(<<"a">>)),
      Entry("article", <<"J", "A", "2021">>, FieldOf(<<" ", "f">>), NoField),
      Entry("article", <<"C", "B", "2020">>, FieldOf(<<"g">>), NoField),
      Entry("article", <<"J", "B", "2020", "x">>, FieldOf(<<"g">>), FieldOf(<<"b">>)) }

\* lines 120-144: the arguments, the entries found in the file, an empty result_dict
InitParse ==
    /\ p_pc = "loop"
    /\ p_type \in EntryTypes
    /\ p_entries \in SeqsUpTo(ParseEntries, MaxParse)
    /\ p_i = 0
    /\ p_result = <<>>
    /\ ValidateIdle
    /\ RunIdle
    /\ SaveLoadIdle
    /\ DictIdle
    /\ CompareIdle

\* lines 143-184: one entry of the file; pattern.findall yields the entries of
\* the requested type only, the loop body handles one of them
ParseNext ==
    /\ p_pc = "loop"
    /\ p_i < Len(p_entries)
    /\ p_i' = p_i + 1
    /\ p_result' = IF p_entries[p_i'].type = p_type
                   THEN ParseEntry(p_result, p_entries[p_i'], p_type)
                   ELSE p_result
    /\ UNCHANGED <<p_pc, p_type, p_entries, vvars, rvars, svars, sodvars, cvars>>

\* line 186: return result_dict
ParseReturn ==
    /\ p_pc = "loop"
    /\ p_i = Len(p_entries)
    /\ p_pc' = "done"
    /\ UNCHANGED <<p_type, p_entries, p_i, p_result, vvars, rvars, svars, sodvars, cvars>>

NextParse ==
    \/ ParseNext
    \/ ParseReturn

SpecParse == InitParse /\ [][NextParse]_vars

\* no string occurs twice in the sequence
NoRepeat(s) == \A i, j \in DOMAIN s : s[i] = s[j] => i = j

\* the stripped full names of the entries among the first n that the loop
\* takes for acronym key k
TakenFulls(k, n) ==
    { Strip(p_entries[i].full.v) :
        i \in { j \in 1..n : /\ p_entries[j].type = p_type
                             /\ Len(p_entries[j].parts) >= 3
                             /\ p_entries[j].parts[1] = Prefix(p_type)
                             /\ p_entries[j].parts[2] = k
                             /\ p_entries[j].full.has } }

\* C14: at every point of the extraction, every record of the table has no
\* string twice in names_full and as many names_abbr as names_full; a full name
\* that several entries of one acronym carry is in the record once, so the
\* record has exactly one pair for each distinct full name taken so far.
C14_NoRepeatedFullName ==
    \A i \in DOMAIN p_result :
        /\ NoRepeat(p_result[i].names_full)
        /\ Len(p_result[i].names_abbr) = Len(p_result[i].names_full)
        /\ Len(p_result[i].names_full) = Cardinality(TakenFulls(p_result[i].key, p_i))

\* C_A_2020 and C_A_2021 with the same booktitle: one pair, the first one
C14_Witness ==
    /\ p_pc = "done"
    /\ p_type = "inproceedings"
    /\ Len(p_entries) = 2
    /\ p_entries[1].parts = <<"C", "A", "2020">>
    /\ p_entries[2].parts = <<"C", "A", "2021">>
    /\ p_entries[1].full = p_entries[2].full
    /\ p_result = << [key |-> "A", names_full |-> <<<<"f">>>>, names_abbr |-> <<<<"a">>>>] >>

\* entry e is of the requested kind, its cite key starts with the kind's prefix
\* and has at least three components, and it has the full-name field
Qualifies(e) ==
    /\ e.type = p_type
    /\ Len(e.parts) >= 3
    /\ e.parts[1] = (IF p_type = "article" THEN "J" ELSE "C")
    /\ e.full.has

\* the name the entry gives as abbreviation: its own, or its full name
AbbrGiven(e) == IF e.abbr.has THEN Strip(e.abbr.v) ELSE Strip(e.full.v)

\* C15: every key of the extracted table is the second component of the cite
\* key of a processed entry that qualifies, and every name of a record was
\* given by a qualifying entry of that key: the other entries add nothing.
C15_KeysFromQualifyingEntries ==
    \A i \in DOMAIN p_result :
        LET rec == p_result[i]
            from == { j \in 1..p_i : Qualifies(p_entries[j]) /\ p_entries[j].parts[2] = rec.key }
        IN /\ from # {}
           /\ \A n \in DOMAIN rec.names_full :
                \E j \in from : /\ rec.names_full[n] = Strip(p_entries[j].full.v)
                                /\ n \in DOMAIN rec.names_abbr
                                /\ rec.names_abbr[n] = AbbrGiven(p_entries[j])

\* a finished extraction that took one entry and skipped another of the
\* requested kind, whose key is not in the table
C15_Witness ==
    /\ p_pc = "done"
    /\ p_result # <<>>
    /\ \E j \in DOMAIN p_entries :
         /\ p_entries[j].type = p_type
         /\ ~Qualifies(p_entries[j])
         /\ Len(p_entries[j].parts) >= 2
         /\ p_entries[j].parts[2] \notin KeySet(p_result)

(***************************************************************************)
(* _compare_and_return, step by step                                       *)
(***************************************************************************)
MaxNewNames == 2

CompareKeys == {"A", "B"}

CompareNames == { <<"f">>, <<"F">>, <<"(", "f", ")">>, <<"g">> }

\* the records of the existing table: one full name each
OldValues == [names_full : { <<n>> : n \in CompareNames }, names_abbr : { << <<"a">> >> }]

\* the records of the candidate table
NewValues ==
    { [names_full |-> fs, names_abbr |-> [i \in DOMAIN fs |-> <<"a">>]] :
        fs \in SeqsUpTo(CompareNames, MaxNewNames) \ {<<>>} }

\* line 221: the two tables given to _compare_and_return
InitCompare ==
    /\ c_pc = "keys"
    /\ \E ks \in KeyLists(CompareKeys, Cardinality(CompareKeys)) :
         \E v \in [DOMAIN ks -> OldValues] : c_old = MkTable(ks, v)
    /\ \E ks \in KeyLists(CompareKeys, Cardinality(CompareKeys)) :
         \E v \in [DOMAIN ks -> NewValues] : c_new = MkTable(ks, v)
    /\ c_report = {}
    /\ c_ret = <<>>
    /\ ValidateIdle
    /\ RunIdle
    /\ SaveLoadIdle
    /\ DictIdle
    /\ ParseIdle

\* lines 232-233: new_only_data
CompareNewOnly ==
    /\ c_pc = "keys"
    /\ \E order \in KeyOrders(KeysOnlyInNew(c_old, c_new)) :
         c_ret' = CompareAndReturn(c_old, c_new, order)
    /\ c_pc' = "common"
    /\ UNCHANGED <<c_old, c_new, c_report, vvars, rvars, svars, sodvars, pvars>>

\* lines 236-261: the loop over the common keys, and its prints
CompareCommon ==
    /\ c_pc = "common"
    /\ c_report' = CompareReport(c_old, c_new)
    /\ c_pc' = "return"
    /\ UNCHANGED <<c_old, c_new, c_ret, vvars, rvars, svars, sodvars, pvars>>

\* line 264: return new_only_data
CompareReturn ==
    /\ c_pc = "return"
    /\ c_pc' = "done"
    /\ UNCHANGED <<c_old, c_new, c_report, c_ret, vvars, rvars, svars, sodvars, pvars>>

NextCompare ==
    \/ CompareNewOnly
    \/ CompareCommon
    \/ CompareReturn

SpecCompare == InitCompare /\ [][NextCompare]_vars

\* the keys both tables hold
InBoth == KeySet(c_old) \cap KeySet(c_new)

\* full name n of the candidate record of key k is in the printed report
Reported(k, n) ==
    \E r \in c_report :
        r.key = k /\ \E i \in DOMAIN r.new_data : Normalize(r.new_data[i]) = Normalize(n)

\* an existing full name of key k equals n up to letter case and parentheses
KnownUpToCaseAndParens(k, n) ==
    \E i \in DOMAIN Get(c_old, k).names_full :
        Normalize(Get(c_old, k).names_full[i]) = Normalize(n)

\* no existing full name of key k equals or, as an anchored pattern, matches n
\* after both are lower-cased and stripped of parentheses
GenuinelyAbsent(k, n) ==
    \A i \in DOMAIN Get(c_old, k).names_full :
        ~ReMatch(Normalize(Get(c_old, k).names_full[i]), Normalize(n))

\* C12 (as claimed): once the loop over the common keys is done, a candidate
\* full name that equals an existing full name of its acronym up to letter case
\* and parentheses is not in the report, and a candidate full name that no
\* existing name of the acronym matches is in the report.
C12_ReportIgnoresCaseAndParens ==
    c_pc \in {"return", "done"} =>
        \A k \in InBoth :
            \A i \in DOMAIN Get(c_new, k).names_full :
                LET n == Get(c_new, k).names_full[i]
                IN /\ KnownUpToCaseAndParens(k, n) => ~Reported(k, n)
                   /\ GenuinelyAbsent(k, n) => Reported(k, n)

\* C13: what _compare_and_return returns holds exactly the keys of the new
\* table that the old table lacks, each once and with the record of the new
\* table; no key of the old table and no name of a common key is in it.
C13_ReturnsNewOnly ==
    c_pc \in {"common", "return", "done"} =>
        /\ KeySet(c_ret) = KeySet(c_new) \ KeySet(c_old)
        /\ \A i, j \in DOMAIN c_ret : c_ret[i].key = c_ret[j].key => i = j
        /\ \A i \in DOMAIN c_ret : c_ret[i] = Get(c_new, c_ret[i].key)

\* old {A: [f]}, new {A: [f, g], B: [...]}: g is reported under A, B alone is returned
C13_Witness ==
    /\ c_pc = "done"
    /\ KeyList(c_old) = <<"A">>
    /\ KeyList(c_new) = <<"A", "B">>
    /\ Get(c_old, "A").names_full = << <<"f">> >>
    /\ Get(c_new, "A").names_full = << <<"f">>, <<"g">> >>
    /\ c_report = { [key |-> "A", new_data |-> << <<"g">> >>] }
    /\ c_ret = << Get(c_new, "B") >>

====
